---- MODULE Spec2Model ----
(***************************************************************************)
(* Stochastic 0L-system inference: the derivation enumerator               *)
(* (derivations.py), the production statistics (utils.py), the             *)
(* single-derivation selector (solver_q1.py) and the multi-start joint fit *)
(* (solver_q2.py).                                                         *)
(*                                                                         *)
(* Strings are sequences of characters.  Indices string_index, char_index, *)
(* last_used_in_t and right_index are 0-based as in the Python source; the *)
(* helpers below convert to the 1-based sequences of TLA+.                 *)
(***************************************************************************)
EXTENDS Integers, Sequences, FiniteSets, TLC

\* overall_dervs_maxprob(seq) and the search it runs
VARIABLES seq, stack, current_mapping, all_mappings, pc, outcome,
          best_derv_distribution, best_derivation, final_probability

\* solve_with_restarts(dict_list, n_restarts); runs is the list of what
\* solve_s0l returned to it, attempt by attempt
VARIABLES dict_list, n_restarts, runs, best_objective, best_distribution,
          best_pairs, success_count, pc2

q1vars == <<seq, stack, current_mapping, all_mappings, pc, outcome,
            best_derv_distribution, best_derivation, final_probability>>

q2vars == <<dict_list, n_restarts, runs, best_objective, best_distribution,
            best_pairs, success_count, pc2>>

vars == <<q1vars, q2vars>>

----------------------------------------------------------------------------
(* Bounds of the model *)

Alphabet == {"A", "B"}
MaxSeqLen == 3
MaxTotalLen == 7

\* the lengths of the strings of an input: at most MaxSeqLen strings with at
\* most MaxTotalLen characters in all
RECURSIVE SumTo(_, _)
SumTo(lens, i) == IF i = 0 THEN 0 ELSE lens[i] + SumTo(lens, i - 1)

LenVectors ==
    UNION {{lens \in [1..n -> 0..MaxTotalLen] : SumTo(lens, n) <= MaxTotalLen}
           : n \in 0..MaxSeqLen}

\* the strings of lengths lens whose characters, end to end, are flat
SplitInto(flat, lens) ==
    [i \in 1..Len(lens) |->
        [j \in 1..lens[i] |-> flat[SumTo(lens, i - 1) + j]]]

\* long inputs: the strings "A", "A", "B" over and over, then "A".  Every
\* string has one character, so there is one derivation and the search does
\* not branch; the counts of the productions grow with the length
LongUnit == <<<<"A">>, <<"A">>, <<"B">>>>
LongRepeats == {55, 56, 60}

Repeat(u, k) == [i \in 1..(k * Len(u)) |-> u[((i - 1) % Len(u)) + 1]]

LongInputs == {Repeat(LongUnit, k) \o <<<<"A">>>> : k \in LongRepeats}

----------------------------------------------------------------------------
(* Python helpers *)

Min(a, b) == IF a < b THEN a ELSE b

\* t[a:b] for 0 <= a
PySlice(t, a, b) ==
    IF a >= Min(b, Len(t)) THEN <<>> ELSE SubSeq(t, a + 1, Min(b, Len(t)))

\* t[a:]
PySliceFrom(t, a) == PySlice(t, a, Len(t))

\* seq[:-1]
AllButLast(sq) == IF Len(sq) = 0 THEN <<>> ELSE SubSeq(sq, 1, Len(sq) - 1)

\* {} and d[key] = val on a dict
EmptyDict == [k \in {} |-> <<>>]
DictSet(d, key, val) ==
    [k \in (DOMAIN d) \cup {key} |-> IF k = key THEN val ELSE d[k]]

Range(f) == {f[k] : k \in DOMAIN f}

RECURSIVE SumOver(_, _)
SumOver(S, f) ==
    IF S = {} THEN 0
    ELSE LET x == CHOOSE y \in S : TRUE
         IN  f[x] + SumOver(S \ {x}, f)

RECURSIVE ProductOver(_, _)
ProductOver(S, f) ==
    IF S = {} THEN 1
    ELSE LET x == CHOOSE y \in S : TRUE
         IN  f[x] * ProductOver(S \ {x}, f)

RECURSIVE Pow(_, _)
Pow(b, e) == IF e = 0 THEN 1 ELSE b * Pow(b, e - 1)

----------------------------------------------------------------------------
(* Python's int has no width: factor and const_factor of utils.py grow   *)
(* without bound.  They are kept as sequences of digits in base BigBase, *)
(* least significant first, with no leading zero digit.                  *)

BigBase == 1000

RECURSIVE BigOf(_)
BigOf(n) == IF n = 0 THEN <<>> ELSE <<n % BigBase>> \o BigOf(n \div BigBase)

BigZero == BigOf(0)
BigOne == BigOf(1)

\* the sum of f[lo], ..., f[hi]
RECURSIVE SumRange(_, _, _)
SumRange(f, lo, hi) ==
    IF lo > hi THEN 0
    ELSE IF lo = hi THEN f[lo]
    ELSE LET mid == (lo + hi) \div 2
         IN  SumRange(f, lo, mid) + SumRange(f, mid + 1, hi)

\* digits that may exceed BigBase - 1, carried until none does, then the
\* leading zeros dropped
RECURSIVE BigCarry(_)
BigCarry(d) ==
    IF \A i \in 1..Len(d) : d[i] < BigBase
    THEN LET used == {i \in 1..Len(d) : d[i] # 0}
             top == IF used = {} THEN 0
                    ELSE CHOOSE i \in used : \A j \in used : j <= i
         IN  SubSeq(d, 1, top)
    ELSE BigCarry([i \in 1..(Len(d) + 1) |->
                      (IF i <= Len(d) THEN d[i] % BigBase ELSE 0)
                    + (IF i > 1 THEN d[i - 1] \div BigBase ELSE 0)])

\* x * y
BigTimes(x, y) ==
    IF Len(x) = 0 \/ Len(y) = 0 THEN BigZero
    ELSE BigCarry([i \in 1..(Len(x) + Len(y)) |->
            LET lo == IF i > Len(y) THEN i + 1 - Len(y) ELSE 1
                hi == IF i < Len(x) THEN i ELSE Len(x)
            IN  SumRange([j \in lo..hi |-> x[j] * y[i + 1 - j]], lo, hi)])

\* k ** e for an int k >= 1
RECURSIVE BigPow(_, _)
BigPow(k, e) ==
    IF e = 0 THEN BigOne
    ELSE LET h == BigPow(k, e \div 2)
         IN  IF e % 2 = 0 THEN BigTimes(h, h)
             ELSE BigTimes(BigTimes(h, h), BigOf(k))

\* x < y
BigLess(x, y) ==
    IF Len(x) # Len(y) THEN Len(x) < Len(y)
    ELSE \E i \in 1..Len(x) :
            /\ x[i] < y[i]
            /\ \A j \in (i + 1)..Len(x) : x[j] = y[j]

BigLeq(x, y) == ~BigLess(y, x)

\* the product over S of f[x] ** f[x]
RECURSIVE BigSelfPowers(_, _)
BigSelfPowers(S, f) ==
    IF S = {} THEN BigOne
    ELSE LET x == CHOOSE y \in S : TRUE
         IN  BigTimes(BigSelfPowers(S \ {x}, f), BigPow(f[x], f[x]))

----------------------------------------------------------------------------
(* Python's float is an IEEE 754 double: 53 bits of mantissa, the largest *)
(* finite value just below 2^1024, the smallest positive value 2^-1074.   *)
(* A float is kept as the fraction <<numerator, denominator>> of two      *)
(* ints; the rounding of the mantissa is left out, the overflow and the   *)
(* underflow of the exponent are not.                                     *)

FloatMantBits == 53
FloatMaxExp == 1024
FloatMinExp == -1074

FloatZero == <<BigZero, BigOne>>

\* the least int that float() cannot convert, because it rounds to
\* 2^FloatMaxExp: 2^FloatMaxExp - 2^(FloatMaxExp - FloatMantBits - 1),
\* with 2^(FloatMantBits + 1) - 1 written as (2^h - 1) * (2^h + 1)
FloatOverflowFrom ==
    LET h == (FloatMantBits + 1) \div 2
    IN  BigTimes(BigTimes(BigOf(Pow(2, h) - 1), BigOf(Pow(2, h) + 1)),
                 BigPow(2, FloatMaxExp - FloatMantBits - 1))

\* the least int whose reciprocal rounds to 0.0: half the smallest float
FloatUnderflowFrom == BigPow(2, 1 - FloatMinExp)

\* 1 / n for an int n >= 1
IntReciprocal(n) ==
    IF BigLeq(FloatUnderflowFrom, n) THEN FloatZero ELSE <<BigOne, n>>

\* n * f for an int n and a float f = 1 / m raises OverflowError when n
\* cannot be converted to float
IntTooLargeForFloat(n) == BigLeq(FloatOverflowFrom, n)

\* n * f for an int 1 <= n < FloatOverflowFrom and f = 0.0 or f = 1 / m
IntTimesFloat(n, f) == IF f = FloatZero THEN FloatZero ELSE <<n, f[2]>>

FloatPositive(f) == f[1] # BigZero
FloatAtMostOne(f) == BigLeq(f[1], f[2])

----------------------------------------------------------------------------
(* derivations.py: _dfs_all_derivations, one frame of the recursion *)

Frame(si, ci, last) ==
    [string_index |-> si, char_index |-> ci, last_used_in_t |-> last,
     right_index |-> last + 1, at |-> "enter"]

Top == stack[Len(stack)]
Pop == SubSeq(stack, 1, Len(stack) - 1)
ReplaceTop(f) == [stack EXCEPT ![Len(stack)] = f]

\* the call made by a frame that returns right after it
CallThenReturn(f) == Append(ReplaceTop([Top EXCEPT !.at = "ret"]), f)

\* range(last_used_in_t + 1, len(t)): the loop runs to the end of t
MiddleRange_ToEnd(last, t) == (last + 1)..(Len(t) - 1)

\* range(last_used_in_t + 1, len(t) - 1)
MiddleRange(last, t) == (last + 1)..(Len(t) - 2)

\* t[last_used_in_t + 1 : right_index + 1]
MiddlePiece(t, last, right) == PySlice(t, last + 1, right + 1)

\* t[last_used_in_t + 1 : ]
LastPiece(t, last) == PySliceFrom(t, last + 1)

\* the key written as (char_index, string_index)
Assign_KeySwapped(m, si, ci, s, piece) ==
    DictSet(m, <<ci, si>>, <<s[ci + 1], piece>>)

\* current_mapping[(string_index, char_index)] = (s[char_index], piece)
Assign(m, si, ci, s, piece) == DictSet(m, <<si, ci>>, <<s[ci + 1], piece>>)

\* all_mappings.append(current_mapping.copy())
Record(all, m) == Append(all, m)

Q1Unchanged ==
    UNCHANGED <<best_derv_distribution, best_derivation, final_probability,
                q2vars>>

\* get_derivations: the first call of the search
GetDerivations ==
    /\ pc = "call"
    /\ pc' = "dfs"
    /\ stack' = <<Frame(0, 0, -1)>>
    /\ current_mapping' = EmptyDict
    /\ all_mappings' = <<>>
    /\ UNCHANGED <<seq, outcome>>
    /\ Q1Unchanged

InDfs == pc = "dfs" /\ Len(stack) > 0

\* if string_index == len(seq) - 1: record a copy and return
DfsRecord ==
    /\ InDfs /\ Top.at = "enter"
    /\ Top.string_index = Len(seq) - 1
    /\ all_mappings' = Record(all_mappings, current_mapping)
    /\ stack' = Pop
    /\ UNCHANGED <<seq, current_mapping, pc, outcome>>
    /\ Q1Unchanged

\* seq[string_index] on a sequence that has no such element
DfsIndexError ==
    /\ InDfs /\ Top.at = "enter"
    /\ Top.string_index # Len(seq) - 1
    /\ Top.string_index >= Len(seq)
    /\ outcome' = "IndexError"
    /\ pc' = "done"
    /\ stack' = <<>>
    /\ UNCHANGED <<seq, current_mapping, all_mappings>>
    /\ Q1Unchanged

\* if char_index == len(seq[string_index]): go to the next string
DfsNextString ==
    /\ InDfs /\ Top.at = "enter"
    /\ Top.string_index # Len(seq) - 1
    /\ Top.string_index < Len(seq)
    /\ Top.char_index = Len(seq[Top.string_index + 1])
    /\ stack' = CallThenReturn(Frame(Top.string_index + 1, 0, -1))
    /\ UNCHANGED <<seq, current_mapping, all_mappings, pc, outcome>>
    /\ Q1Unchanged

\* if char_index == len(s) - 1: the last character takes the remainder of t
DfsLastChar ==
    /\ InDfs /\ Top.at = "enter"
    /\ Top.string_index # Len(seq) - 1
    /\ Top.string_index < Len(seq)
    /\ LET s == seq[Top.string_index + 1]
           t == seq[Top.string_index + 2]
       IN  /\ Top.char_index # Len(s)
           /\ Top.char_index = Len(s) - 1
           /\ current_mapping' =
                 Assign(current_mapping, Top.string_index, Top.char_index, s,
                        LastPiece(t, Top.last_used_in_t))
           /\ stack' = CallThenReturn(
                 Frame(Top.string_index, Top.char_index + 1, Len(s) - 1))
    /\ UNCHANGED <<seq, all_mappings, pc, outcome>>
    /\ Q1Unchanged

\* the frame is at the for loop over right_index
AtLoop ==
    /\ InDfs
    /\ Top.string_index # Len(seq) - 1
    /\ Top.string_index < Len(seq)
    /\ \/ Top.at = "loop"
       \/ /\ Top.at = "enter"
          /\ Top.char_index # Len(seq[Top.string_index + 1])
          /\ Top.char_index # Len(seq[Top.string_index + 1]) - 1

\* one iteration of the loop: a middle character takes t[last+1 : right+1]
DfsMiddle ==
    /\ AtLoop
    /\ LET s == seq[Top.string_index + 1]
           t == seq[Top.string_index + 2]
       IN  /\ Top.right_index \in MiddleRange(Top.last_used_in_t, t)
           /\ current_mapping' =
                 Assign(current_mapping, Top.string_index, Top.char_index, s,
                        MiddlePiece(t, Top.last_used_in_t, Top.right_index))
           /\ stack' = Append(
                 ReplaceTop([Top EXCEPT !.at = "loop",
                                        !.right_index = Top.right_index + 1]),
                 Frame(Top.string_index, Top.char_index + 1, Top.right_index))
    /\ UNCHANGED <<seq, all_mappings, pc, outcome>>
    /\ Q1Unchanged

\* the loop is exhausted: the call returns
DfsLoopEnd ==
    /\ AtLoop
    /\ Top.right_index \notin
          MiddleRange(Top.last_used_in_t, seq[Top.string_index + 2])
    /\ stack' = Pop
    /\ UNCHANGED <<seq, current_mapping, all_mappings, pc, outcome>>
    /\ Q1Unchanged

\* the return after a nested call
DfsReturn ==
    /\ InDfs /\ Top.at = "ret"
    /\ stack' = Pop
    /\ UNCHANGED <<seq, current_mapping, all_mappings, pc, outcome>>
    /\ Q1Unchanged

----------------------------------------------------------------------------
(* utils.py *)

\* get_prod_count: production -> number of positions mapped to it
get_prod_count(derivation) ==
    [p \in Range(derivation) |->
        Cardinality({k \in DOMAIN derivation : derivation[k] = p})]

\* non_constant_factor: product of a^a over the productions, an int
non_constant_factor(derivation) ==
    LET prod_count == get_prod_count(derivation)
    IN  BigSelfPowers(DOMAIN prod_count, prod_count)

optimal_scaled_probability_val(sq, derivation) ==
    non_constant_factor(derivation)

\* the characters counted in seq instead of seq[:-1]
CountedStrings_All(sq) == sq

\* the strings constant_factor counts characters in: seq[:-1]
CountedStrings(sq) == AllButLast(sq)

\* seq_char_count of constant_factor
seq_char_count(sq) ==
    LET cs == CountedStrings(sq)
        chars == UNION {Range(cs[i]) : i \in 1..Len(cs)}
        occ(c, s) == Cardinality({j \in 1..Len(s) : s[j] = c})
    IN  [c \in chars |->
            SumRange([i \in 1..Len(cs) |-> occ(c, cs[i])], 1, Len(cs))]

\* const_factor of constant_factor before the division: prod(count^count)
const_factor_of(cnt) == BigSelfPowers(DOMAIN cnt, cnt)

\* constant_factor: (1 / const_factor, seq_char_count)
constant_factor(sq) ==
    LET cnt == seq_char_count(sq)
    IN  [const_factor |-> IntReciprocal(const_factor_of(cnt)),
         seq_char_count |-> cnt]

----------------------------------------------------------------------------
(* solver_q1.py: overall_dervs_maxprob after get_derivations has returned *)

Returned == pc = "dfs" /\ Len(stack) = 0

scaled_probs_of(sq, derivation_list) ==
    [k \in 1..Len(derivation_list) |->
        optimal_scaled_probability_val(sq, derivation_list[k])]

\* max(scaled_probs)
MaxOf(xs) == CHOOSE m \in Range(xs) : \A k \in DOMAIN xs : BigLeq(xs[k], m)

\* the position of the last occurrence instead of the first
IndexOf_Last(xs, v) ==
    CHOOSE k \in DOMAIN xs :
        xs[k] = v /\ \A j \in (k + 1)..Len(xs) : xs[j] # v

\* scaled_probs.index(max_prob), as a 1-based position
IndexOf(xs, v) ==
    CHOOSE k \in DOMAIN xs : xs[k] = v /\ \A j \in 1..(k - 1) : xs[j] # v

\* max() of an empty list
SelectValueError ==
    /\ Returned
    /\ Len(all_mappings) = 0
    /\ outcome' = "ValueError"
    /\ pc' = "done"
    /\ UNCHANGED <<seq, stack, current_mapping, all_mappings>>
    /\ Q1Unchanged

\* steps 2 to 5 of overall_dervs_maxprob on the list get_derivations
\* returned: what is returned, or the error raised
overall_dervs_maxprob(sq, derivation_list) ==
    LET scaled_probs == scaled_probs_of(sq, derivation_list)
        max_prob == MaxOf(scaled_probs)
        max_index == IndexOf(scaled_probs, max_prob)
        best == derivation_list[max_index]
        production_count == get_prod_count(best)
        cf == constant_factor(sq)
    IN  IF \E prod \in DOMAIN production_count :
              prod[1] \notin DOMAIN cf.seq_char_count
        THEN [outcome |-> "KeyError"]
        ELSE IF IntTooLargeForFloat(max_prob)
        THEN [outcome |-> "OverflowError"]
        ELSE [outcome |-> "returned",
              best_derv_distribution |->
                  [prod \in DOMAIN production_count |->
                      <<production_count[prod],
                        cf.seq_char_count[prod[1]]>>],
              best_derivation |-> best,
              final_probability |->
                  IntTimesFloat(max_prob, cf.const_factor)]

SelectBest ==
    /\ Returned
    /\ Len(all_mappings) > 0
    /\ \E result \in {overall_dervs_maxprob(seq, all_mappings)} :
          /\ outcome' = result.outcome
          /\ IF result.outcome = "returned"
             THEN /\ best_derv_distribution' = result.best_derv_distribution
                  /\ best_derivation' = result.best_derivation
                  /\ final_probability' = result.final_probability
             ELSE Q1Unchanged
    /\ pc' = "done"
    /\ UNCHANGED <<seq, stack, current_mapping, all_mappings, q2vars>>

----------------------------------------------------------------------------
(* solver_q2.py: inputs of the model *)

\* the productions the input derivations are made of
Prods == {<<"A", <<"A">>>>, <<"A", <<"A", "B">>>>, <<"B", <<"B">>>>}

MaxKeys == 2
MaxRestarts == 2

\* probabilities are the fractions 0/Denom .. Denom/Denom; a vector of
\* probabilities is kept as the vector of their numerators
Denom == 2

\* a product of at most MaxKeys probabilities, and a sum of such products,
\* is kept as its numerator over Denom^MaxKeys

\* Python's order on characters, strings and (char, rewriting) tuples
CharLess(a, b) == a = "A" /\ b = "B"

RECURSIVE StrLess(_, _)
StrLess(a, b) ==
    IF Len(a) = 0 THEN Len(b) > 0
    ELSE IF Len(b) = 0 THEN FALSE
    ELSE IF Head(a) # Head(b) THEN CharLess(Head(a), Head(b))
    ELSE StrLess(Tail(a), Tail(b))

PairLess(p, q) ==
    IF p[1] # q[1] THEN CharLess(p[1], q[1]) ELSE StrLess(p[2], q[2])

\* the derivations given to the joint fit: positions (0,0) .. (0,k-1), each
\* mapped to a production; one derivation for each multiset of productions
InputDerivations ==
    UNION {{d \in [{<<0, j>> : j \in 0..(k - 1)} -> Prods] :
               \A j \in 1..(k - 1) : ~PairLess(d[<<0, j>>], d[<<0, j - 1>>])}
           : k \in 1..MaxKeys}

InputDictLists ==
    {<<d>> : d \in InputDerivations}
        \cup {<<d, e>> : d \in InputDerivations, e \in InputDerivations}

\* None and a present value
None == [some |-> FALSE]
Some(v) == [some |-> TRUE, v |-> v]

\* floats: -inf, and the finite values n / Denom^MaxKeys
NegInf == [finite |-> FALSE, n |-> 0]
Float(n) == [finite |-> TRUE, n |-> n]
FloatGreater(a, b) ==
    /\ a.finite
    /\ (~b.finite) \/ a.n > b.n

----------------------------------------------------------------------------
(* solver_q2.py: solve_s0l *)

\* Counter(derivation_dict.values())
CounterOf(derivation_dict) ==
    [p \in Range(derivation_dict) |->
        Cardinality({k \in DOMAIN derivation_dict : derivation_dict[k] = p})]

\* freq_list: one frequency map per dictionary of dict_list
freq_list_of(dl) == [i \in 1..Len(dl) |-> CounterOf(dl[i])]

all_pairs_of(dl) == UNION {DOMAIN CounterOf(dl[i]) : i \in 1..Len(dl)}

\* sorted(S)
RECURSIVE Sorted(_)
Sorted(S) ==
    IF S = {} THEN <<>>
    ELSE LET m == CHOOSE x \in S : \A y \in S \ {x} : PairLess(x, y)
         IN  <<m>> \o Sorted(S \ {m})

pairs_list_of(dl) == Sorted(all_pairs_of(dl))

unique_chars_of(pairs_list) == {pairs_list[i][1] : i \in 1..Len(pairs_list)}

\* array_to_dict: {pairs_list[i]: var_array[i]}
array_to_dict(pairs_list, var_array) ==
    [p \in Range(pairs_list) |->
        var_array[CHOOSE i \in 1..Len(pairs_list) : pairs_list[i] = p]]

\* the exponents of one frequency map, summed
Degree(freq_map) == SumOver(DOMAIN freq_map, freq_map)

\* prod_val of one frequency map: the product of x^exponent
prod_val_of(distribution, freq_map) ==
    ProductOver(DOMAIN freq_map,
                [p \in DOMAIN freq_map |-> Pow(distribution[p], freq_map[p])])
        * Pow(Denom, MaxKeys - Degree(freq_map))

\* objective: minus the sum over the frequency maps of their products
RECURSIVE total_sum_of(_, _, _)
total_sum_of(distribution, freq_list, i) ==
    IF i = 0 THEN 0
    ELSE total_sum_of(distribution, freq_list, i - 1)
         + prod_val_of(distribution, freq_list[i])

\* the sum taken over the distinct frequency maps
objective_Distinct(pairs_list, var_array, freq_list) ==
    LET distribution == array_to_dict(pairs_list, var_array)
        maps == Range(freq_list)
    IN  0 - SumOver(maps, [fm \in maps |-> prod_val_of(distribution, fm)])

objective(pairs_list, var_array, freq_list) ==
    0 - total_sum_of(array_to_dict(pairs_list, var_array), freq_list,
                     Len(freq_list))

\* constraint_sum_for_char(var_array, char) = 0, and the bounds (0, 1)
Feasible(pairs_list, var_array) ==
    /\ \A i \in 1..Len(pairs_list) : var_array[i] \in 0..Denom
    /\ \A char \in unique_chars_of(pairs_list) :
          LET idx == {i \in 1..Len(pairs_list) : pairs_list[i][1] = char}
          IN  SumOver(idx, [i \in idx |-> var_array[i]]) = Denom

\* what minimize() may answer: it converged or not, and the point res.x it
\* stopped at, which satisfies the bounds and the constraints
OptimizerResults(pairs_list) ==
    {[success |-> b, x |-> x] :
        b \in BOOLEAN,
        x \in {v \in [1..Len(pairs_list) -> 0..Denom] :
                  Feasible(pairs_list, v)}}

\* solve_s0l from the construction of freq_list to its return, given the
\* answer res of minimize(); the initial guess only steers minimize()
solve_s0l(dl, res) ==
    LET freq_list == freq_list_of(dl)
        pairs_list == pairs_list_of(dl)
    IN  IF res.success
        THEN [success |-> TRUE,
              val |-> Some(0 - objective(pairs_list, res.x, freq_list)),
              sol |-> Some(array_to_dict(pairs_list, res.x)),
              pairs |-> pairs_list]
        ELSE [success |-> FALSE, val |-> None, sol |-> None,
              pairs |-> pairs_list]

----------------------------------------------------------------------------
(* solver_q2.py: solve_with_restarts *)

\* success and val >= best_objective
Improves_OrEqual(r, best) ==
    /\ r.success
    /\ FloatGreater(Float(r.val.v), best) \/ Float(r.val.v) = best

\* success and val > best_objective
Improves(r, best) == r.success /\ FloatGreater(Float(r.val.v), best)

\* the body of both `if success and val > best_objective:` blocks
Keep(r) ==
    IF Improves(r, best_objective)
    THEN /\ best_objective' = Float(r.val.v)
         /\ best_distribution' = r.sol
         /\ best_pairs' = Some(r.pairs)
         /\ success_count' = success_count + 1
    ELSE UNCHANGED <<best_objective, best_distribution, best_pairs,
                     success_count>>

\* the first run, from the uniform guess
UniformRun ==
    /\ pc2 = "uniform"
    /\ \E res \in OptimizerResults(pairs_list_of(dict_list)) :
          LET r == solve_s0l(dict_list, res)
          IN  /\ Keep(r)
              /\ runs' = Append(runs, r)
    /\ pc2' = "restarts"
    /\ UNCHANGED <<dict_list, n_restarts, q1vars>>

\* one iteration of `for _ in range(n_restarts)`: a run from a random guess
RandomRestart ==
    /\ pc2 = "restarts"
    /\ Len(runs) - 1 < n_restarts
    /\ \E res \in OptimizerResults(pairs_list_of(dict_list)) :
          LET r == solve_s0l(dict_list, res)
          IN  /\ Keep(r)
              /\ runs' = Append(runs, r)
    /\ UNCHANGED <<dict_list, n_restarts, pc2, q1vars>>

\* return best_objective, best_distribution, best_pairs, success_count
RestartsReturn ==
    /\ pc2 = "restarts"
    /\ Len(runs) - 1 >= n_restarts
    /\ pc2' = "done"
    /\ UNCHANGED <<dict_list, n_restarts, runs, best_objective,
                   best_distribution, best_pairs, success_count, q1vars>>

----------------------------------------------------------------------------

Q1Idle ==
    /\ seq = <<>>
    /\ stack = <<>>
    /\ current_mapping = EmptyDict
    /\ all_mappings = <<>>
    /\ pc = "idle"
    /\ outcome = "none"
    /\ best_derv_distribution = EmptyDict
    /\ best_derivation = EmptyDict
    /\ final_probability = FloatZero

Q2Idle ==
    /\ dict_list = <<>>
    /\ n_restarts = 0
    /\ runs = <<>>
    /\ best_objective = NegInf
    /\ best_distribution = None
    /\ best_pairs = None
    /\ success_count = 0
    /\ pc2 = "idle"

\* the call overall_dervs_maxprob(seq)
Init ==
    /\ \/ \E lens \in LenVectors :
             \E flat \in [1..SumTo(lens, Len(lens)) -> Alphabet] :
                seq = SplitInto(flat, lens)
       \/ seq \in LongInputs
    /\ stack = <<>>
    /\ current_mapping = EmptyDict
    /\ all_mappings = <<>>
    /\ pc = "call"
    /\ outcome = "none"
    /\ best_derv_distribution = EmptyDict
    /\ best_derivation = EmptyDict
    /\ final_probability = FloatZero
    /\ Q2Idle

Next ==
    \/ GetDerivations
    \/ DfsRecord
    \/ DfsIndexError
    \/ DfsNextString
    \/ DfsLastChar
    \/ DfsMiddle
    \/ DfsLoopEnd
    \/ DfsReturn
    \/ SelectValueError
    \/ SelectBest

Spec == Init /\ [][Next]_vars

\* the call solve_with_restarts(dict_list, n_restarts), after lines 176-179
InitQ2 ==
    /\ dict_list \in InputDictLists
    /\ n_restarts \in 0..MaxRestarts
    /\ runs = <<>>
    /\ best_objective = NegInf
    /\ best_distribution = None
    /\ best_pairs = None
    /\ success_count = 0
    /\ pc2 = "uniform"
    /\ Q1Idle

NextQ2 ==
    \/ UniformRun
    \/ RandomRestart
    \/ RestartsReturn

SpecQ2 == InitQ2 /\ [][NextQ2]_vars

----------------------------------------------------------------------------
(* Vocabulary of the properties *)

\* get_derivations has returned its list (all_mappings)
GotDerivations ==
    \/ pc = "dfs" /\ Len(stack) = 0
    \/ pc = "done" /\ outcome # "IndexError"

Q1Returned == pc = "done" /\ outcome = "returned"

NonFinal == 0..(Len(seq) - 2)

\* the positions of the characters of the non-final strings
Keys == {<<i, j>> \in NonFinal \X (0..MaxTotalLen) : j < Len(seq[i + 1])}

AllNonEmpty == \A i \in 1..Len(seq) : Len(seq[i]) > 0

\* d[(i,0)][1] + d[(i,1)][1] + ... + d[(i,n-1)][1]
RECURSIVE ConcatPieces(_, _, _)
ConcatPieces(d, i, n) ==
    IF n = 0 THEN <<>>
    ELSE ConcatPieces(d, i, n - 1) \o d[<<i, n - 1>>][2]

PartitionsNext(d) ==
    \A i \in NonFinal :
        /\ \A j \in 0..(Len(seq[i + 1]) - 1) : <<i, j>> \in DOMAIN d
        /\ ConcatPieces(d, i, Len(seq[i + 1])) = seq[i + 2]

RECURSIVE Binom(_, _)
Binom(n, k) ==
    IF k < 0 \/ k > n THEN 0
    ELSE IF k = 0 THEN 1
    ELSE Binom(n - 1, k - 1) + Binom(n - 1, k)

\* the k-th smallest element of a set of integers, k from 1
Kth(C, k) == CHOOSE c \in C : Cardinality({x \in C : x < c}) = k - 1

\* the derivation of seq[i+1] from seq[i] that cuts seq[i+1] after the
\* positions in C (1-based i)
PairDerivation(i, C) ==
    LET s == seq[i]
        t == seq[i + 1]
        cut(j) == IF j = 0 THEN 0
                  ELSE IF j = Len(s) THEN Len(t)
                  ELSE Kth(C, j)
    IN  [key \in {<<i - 1, j>> : j \in 0..(Len(s) - 1)} |->
            <<s[key[2] + 1], SubSeq(t, cut(key[2]) + 1, cut(key[2] + 1))>>]

PairDerivations(i) ==
    {PairDerivation(i, C) :
        C \in {C \in SUBSET (1..(Len(seq[i + 1]) - 1)) :
                  Cardinality(C) = Len(seq[i]) - 1}}

\* every way to give each character of each non-final string a non-empty
\* consecutive piece of the next string, the pieces partitioning it
RECURSIVE ValidUpTo(_)
ValidUpTo(i) ==
    IF i = 0 THEN {EmptyDict}
    ELSE {d1 @@ d2 : d1 \in ValidUpTo(i - 1), d2 \in PairDerivations(i)}

ValidDerivations == ValidUpTo(Len(seq) - 1)

RECURSIVE BinomProduct(_)
BinomProduct(i) ==
    IF i = 0 THEN 1
    ELSE Binom(Len(seq[i + 1]) - 1, Len(seq[i]) - 1) * BinomProduct(i - 1)

\* occurrences of c in seq[:-1]
RECURSIVE Occurrences(_, _)
Occurrences(c, i) ==
    IF i <= 0 THEN 0
    ELSE Cardinality({j \in 1..Len(seq[i]) : seq[i][j] = c})
         + Occurrences(c, i - 1)

CharCount(c) == Occurrences(c, Len(seq) - 1)

TotalNonFinalChars ==
    SumOver(NonFinal, [i \in NonFinal |-> Len(seq[i + 1])])

----------------------------------------------------------------------------
(* Properties *)

\* C1: for every sequence of two or more strings (empty strings included)
\* and every derivation d that get_derivations returns, the substrings
\* d[(i,0)][1], ..., d[(i,len(seq[i])-1)][1] concatenated in character order
\* give exactly seq[i+1], for every i from 0 to len(seq)-2.
C1_ConcatEqualsNext ==
    (GotDerivations /\ Len(seq) >= 2) =>
        \A k \in 1..Len(all_mappings) : PartitionsNext(all_mappings[k])

\* C1, on the sequences whose non-final strings are all non-empty: the
\* concatenation property holds of every recorded derivation.
C1_ConcatNonEmptySources ==
    (Len(seq) >= 2 /\ \A i \in NonFinal : Len(seq[i + 1]) > 0) =>
        \A k \in 1..Len(all_mappings) : PartitionsNext(all_mappings[k])

\* C2: for every sequence of two or more non-empty strings, get_derivations
\* returns exactly the valid derivations, each exactly once; their number is
\* the product over i of C(len(seq[i+1])-1, len(seq[i])-1), which is 3 for
\* ['A','AB','ABBA'].
C2_ExactlyAllValid ==
    (GotDerivations /\ Len(seq) >= 2 /\ AllNonEmpty) =>
        /\ Range(all_mappings) = ValidDerivations
        /\ Cardinality(Range(all_mappings)) = Len(all_mappings)
        /\ Len(all_mappings) = BinomProduct(Len(seq) - 1)
        /\ seq = <<<<"A">>, <<"A", "B">>, <<"A", "B", "B", "A">>>>
              => Len(all_mappings) = 3

C2_Witness ==
    /\ GotDerivations
    /\ seq = <<<<"A">>, <<"A", "B">>, <<"A", "B", "B", "A">>>>
    /\ Len(all_mappings) = 3
    /\ Range(all_mappings) = ValidDerivations

\* C3: every derivation d returned by get_derivations has exactly the keys
\* (i,j) with 0 <= i <= len(seq)-2 and 0 <= j < len(seq[i]), d[(i,j)][0] is
\* seq[i][j], and the values of get_prod_count(d) sum to the number of
\* characters of the non-final strings.
C3_TotalMapping ==
    GotDerivations =>
        \A k \in 1..Len(all_mappings) :
            LET d == all_mappings[k]
                cnt == get_prod_count(d)
            IN  /\ DOMAIN d = Keys
                /\ \A key \in Keys : d[key][1] = seq[key[1] + 1][key[2] + 1]
                /\ SumOver(DOMAIN cnt, cnt) = TotalNonFinalChars

\* several derivations, recorded from branches that overwrote each other's
\* keys in the shared mapping
C3_Witness ==
    /\ GotDerivations
    /\ Len(seq) = 3
    /\ Len(all_mappings) >= 2
    /\ \E key \in Keys : all_mappings[1][key] # all_mappings[2][key]
    /\ \A k \in 1..Len(all_mappings) : DOMAIN all_mappings[k] = Keys

\* C4: whenever overall_dervs_maxprob returns, for every symbol c that is
\* the left side of a production of the returned distribution, the
\* probabilities of the productions with left side c sum to exactly 1: they
\* are fractions over the number of occurrences of c in seq[:-1], which is at
\* least 1, and their numerators (the best derivation's counts) sum to it.
\* The divisor is never missing.
C4_SumsToOne ==
    /\ outcome # "KeyError"
    /\ Q1Returned =>
          LET dist == best_derv_distribution
              cnt == get_prod_count(best_derivation)
          IN  /\ DOMAIN dist = DOMAIN cnt
              /\ \A c \in {p[1] : p \in DOMAIN dist} :
                    LET mine == {p \in DOMAIN dist : p[1] = c}
                    IN  /\ CharCount(c) >= 1
                        /\ \A p \in mine :
                              dist[p] = <<cnt[p], CharCount(c)>>
                        /\ SumOver(mine, [p \in mine |-> dist[p][1]])
                              = CharCount(c)

\* a returned distribution in which one symbol has two productions
C4_Witness ==
    /\ Q1Returned
    /\ \E p, q \in DOMAIN best_derv_distribution :
          /\ p # q /\ p[1] = q[1]
          /\ best_derv_distribution[p][2] >= 3

\* C5: overall_dervs_maxprob returns the derivation whose concentration
\* factor is maximal among those get_derivations returned, and of several
\* with that maximum the first in enumeration order.
C5_FirstArgMax ==
    Q1Returned =>
        \E k \in 1..Len(all_mappings) :
            /\ best_derivation = all_mappings[k]
            /\ \A j \in 1..Len(all_mappings) :
                  BigLeq(non_constant_factor(all_mappings[j]),
                         non_constant_factor(all_mappings[k]))
            /\ \A j \in 1..(k - 1) :
                  BigLess(non_constant_factor(all_mappings[j]),
                          non_constant_factor(all_mappings[k]))

\* the maximum is reached twice, first at a position that is not the first
\* of the list, and the earlier of the two is returned
C5_Witness ==
    /\ Q1Returned
    /\ \E j, k \in 1..Len(all_mappings) :
          /\ 1 < j /\ j < k
          /\ best_derivation = all_mappings[j]
          /\ all_mappings[j] # all_mappings[k]
          /\ non_constant_factor(all_mappings[j])
                = non_constant_factor(all_mappings[k])
          /\ BigLess(non_constant_factor(all_mappings[1]),
                     non_constant_factor(all_mappings[j]))

\* C6: on a sequence of fewer than 2 strings overall_dervs_maxprob fails
\* with a dedicated input error and never returns a result or a generic
\* error.
C6_ShortInputRejected ==
    (pc = "done" /\ Len(seq) < 2) =>
        outcome \in {"EmptyInputError", "DegenerateInputError"}

\* C7: when get_derivations returns an empty list, overall_dervs_maxprob
\* fails with NoDerivationError instead of taking max() of an empty list.
C7_NoDerivationError ==
    (pc = "done" /\ outcome # "IndexError" /\ Len(all_mappings) = 0) =>
        outcome = "NoDerivationError"

----------------------------------------------------------------------------
(* Properties of solve_with_restarts and solve_s0l *)

\* the attempts whose solver run converged
Converged == {k \in 1..Len(runs) : runs[k].success}

\* the highest objective value of the converged attempts
BestVal ==
    CHOOSE m \in {runs[k].val.v : k \in Converged} :
        \A k \in Converged : runs[k].val.v <= m

\* the first attempt that reached it
FirstBest ==
    CHOOSE k \in Converged :
        /\ runs[k].val.v = BestVal
        /\ \A j \in Converged : j < k => runs[j].val.v < BestVal

\* C8: success_count, as returned, is the number of the N+1 attempts whose
\* solver run converged.
C8_CountsConverged ==
    pc2 = "done" => success_count = Cardinality(Converged)

\* C9: after every attempt, and at the return after all N+1 of them, the
\* best objective is the maximum over the converged attempts so far, with the
\* distribution and production list of the first attempt that reached it
\* (so an attempt that did not converge changes nothing and ends nothing);
\* with no converged attempt the result is (-inf, None, None, 0).
C9_BestOfConverged ==
    /\ pc2 = "done" => Len(runs) = n_restarts + 1
    /\ pc2 \in {"restarts", "done"} =>
          IF Converged = {}
          THEN /\ best_objective = NegInf
               /\ best_distribution = None
               /\ best_pairs = None
               /\ success_count = 0
          ELSE /\ best_objective = Float(BestVal)
               /\ best_distribution = runs[FirstBest].sol
               /\ best_pairs = Some(runs[FirstBest].pairs)

\* three attempts: the first converged, the second did not, the third
\* converged to the same value at another point; the first one's
\* distribution is returned
C9_Witness ==
    /\ pc2 = "done"
    /\ Len(runs) = 3
    /\ runs[1].success /\ ~runs[2].success /\ runs[3].success
    /\ runs[1].val = runs[3].val
    /\ runs[1].sol # runs[3].sol
    /\ best_distribution = runs[1].sol
    /\ best_objective.finite /\ best_objective.n > 0

\* the input is one derivation given twice
Duplicated ==
    /\ pc2 # "idle"
    /\ Len(dict_list) = 2
    /\ dict_list[1] = dict_list[2]

\* what solve_s0l returns on the derivation alone when minimize() stops at
\* the point of the converged run r
AloneAt(r) ==
    LET one == <<dict_list[1]>>
        pl == pairs_list_of(one)
    IN  solve_s0l(one, [success |-> TRUE,
                        x |-> [i \in 1..Len(pl) |-> r.sol.v[pl[i]]]])

FeasiblePoints(pl) ==
    {v \in [1..Len(pl) -> 0..Denom] : Feasible(pl, v)}

ObjectiveAt(dl, x) == 0 - objective(pairs_list_of(dl), x, freq_list_of(dl))

Maximisers(dl) ==
    {x \in FeasiblePoints(pairs_list_of(dl)) :
        \A y \in FeasiblePoints(pairs_list_of(dl)) :
            ObjectiveAt(dl, y) <= ObjectiveAt(dl, x)}

\* C10 (as stated): on [d, d] solve_s0l returns the same objective value and
\* the same distribution as on [d] alone, at every point the solver stops at.
C10_DuplicateSameValue ==
    Duplicated =>
        \A k \in Converged :
            /\ runs[k].val = AloneAt(runs[k]).val
            /\ runs[k].sol = AloneAt(runs[k]).sol

\* C10 (amended): on [d, d] the objective is, at every probability vector,
\* exactly twice the objective on [d] alone; the production list and the
\* set of maximising vectors are the same, and at every point the solver
\* stops at solve_s0l returns the same distribution and twice the value.
C10_DuplicateDoubles ==
    Duplicated =>
        LET one == <<dict_list[1]>>
            pl == pairs_list_of(dict_list)
        IN  /\ pairs_list_of(one) = pl
            /\ \A x \in FeasiblePoints(pl) :
                  ObjectiveAt(dict_list, x) = 2 * ObjectiveAt(one, x)
            /\ Maximisers(dict_list) = Maximisers(one)
            /\ \A k \in Converged :
                  /\ runs[k].val.v = 2 * AloneAt(runs[k]).val.v
                  /\ runs[k].sol = AloneAt(runs[k]).sol

\* a derivation with two productions of one symbol, given twice, and a run
\* that converged at a point where the objective is not zero
C10_Witness ==
    /\ Duplicated
    /\ pc2 = "done"
    /\ Cardinality(Range(dict_list[1])) = 2
    /\ \E k \in Converged :
          /\ runs[k].val.v > 0
          /\ runs[k].val.v = 2 * AloneAt(runs[k]).val.v

----------------------------------------------------------------------------
(* Sequences with a string shorter than its predecessor *)

\* some seq[i+1] has fewer characters than seq[i]
SomeShorter == \E i \in 1..(Len(seq) - 1) : Len(seq[i + 1]) < Len(seq[i])

\* every piece of every recorded derivation is non-empty
NoEmptyPiece ==
    \A k \in 1..Len(all_mappings) :
        \A key \in DOMAIN all_mappings[k] : Len(all_mappings[k][key][2]) > 0

\* C11: when some seq[i+1] is strictly shorter than seq[i], get_derivations
\* raises no error and returns the empty list, and no derivation gives a
\* symbol an empty substring.
C11_ShorterGivesNone ==
    SomeShorter =>
        /\ outcome # "IndexError"
        /\ GotDerivations => Len(all_mappings) = 0
        /\ NoEmptyPiece

\* C11, apart from a one-character string followed by the empty string: a
\* string of two or more characters followed by a shorter one leaves the
\* list empty, and an empty piece is only ever given by a one-character
\* string whose successor is empty.
C11_ShorterThanTwoOrMore ==
    /\ (\E i \in 1..(Len(seq) - 1) :
           Len(seq[i]) >= 2 /\ Len(seq[i + 1]) < Len(seq[i]))
          => Len(all_mappings) = 0 /\ outcome # "IndexError"
    /\ \A k \in 1..Len(all_mappings) :
          \A key \in DOMAIN all_mappings[k] :
              Len(all_mappings[k][key][2]) = 0 =>
                  /\ Len(seq[key[1] + 1]) = 1
                  /\ Len(seq[key[1] + 2]) = 0

\* prod(count^count) over the characters of seq[:-1], as an int
ConstFactor == const_factor_of(seq_char_count(seq))

C12_FactorWithinBound ==
    GotDerivations =>
        \A k \in 1..Len(all_mappings) :
            /\ BigLeq(BigOne, non_constant_factor(all_mappings[k]))
            /\ BigLeq(non_constant_factor(all_mappings[k]), ConstFactor)

\* C12: the final probability overall_dervs_maxprob returns is strictly
\* greater than 0 and at most 1, and the concentration factor of every
\* enumerated derivation is a positive integer not exceeding the product
\* over the symbols c of charCount(c)^charCount(c), counted in seq[:-1].
C12_ProbabilityInUnitInterval ==
    /\ Q1Returned =>
          /\ FloatPositive(final_probability)
          /\ FloatAtMostOne(final_probability)
    /\ C12_FactorWithinBound

\* C12, while 1 / const_factor does not underflow: the final probability
\* returned is positive and at most 1.
C12_PositiveUnlessUnderflow ==
    (Q1Returned /\ BigLess(ConstFactor, FloatUnderflowFrom)) =>
        /\ FloatPositive(final_probability)
        /\ FloatAtMostOne(final_probability)

\* C12, the other way the float gives out: a derivation exists and nothing
\* is returned only when max_prob is too large for float().
C12_ErrorOnlyOnOverflow ==
    (pc = "done" /\ Len(all_mappings) > 0) =>
        \/ outcome = "returned"
        \/ /\ outcome = "OverflowError"
           /\ \E k \in 1..Len(all_mappings) :
                 IntTooLargeForFloat(non_constant_factor(all_mappings[k]))

\* a long input ends in OverflowError
C12_OverflowReached == pc = "done" /\ outcome = "OverflowError"

====
